---- MODULE Spec2Model ----
(***************************************************************************)
(* Fixed-capacity Merkle tree (merkle_tree.hpp / merkle_tree.cpp):         *)
(* addHashOf, getRootHash, generateProof on a MerkleTree object and the    *)
(* free function verifyProof.                                              *)
(*                                                                         *)
(* hash_t is std::size_t; here it is HashBits wide and every sum of two    *)
(* hashes wraps modulo 2^HashBits as unsigned arithmetic does.  The source *)
(* fixes treeHeight = 5; the model keeps the tree's shape and scales the   *)
(* height down so that every fill count 0..treeCapacity is explored.       *)
(* std::hash is implementation-defined: the build decides which function   *)
(* it is, so the model draws it at construction (hashImpl).  The builds    *)
(* drawn are one-to-one on hash_t, and the string hash is one-to-one and   *)
(* non-zero on the strings used: the hashes themselves never collide.      *)
(***************************************************************************)
EXTENDS Integers, Sequences, FiniteSets, TLC

\* Height of the tree (merkle_tree.hpp:8 sets 5; scaled down here).
treeHeight == 2

\* Width of hash_t in bits (64 in the source).
HashBits == 3

\* Largest hash value a caller puts into a hand-made proof.
MaxProofHash == 2

RECURSIVE Pow2(_)
Pow2(n) == IF n = 0 THEN 1 ELSE 2 * Pow2(n - 1)

\* static constexpr int treeCapacity = 1 << treeHeight
treeCapacity == Pow2(treeHeight)

\* Number of values of hash_t; sums of hashes wrap at this modulus.
HashSpace == Pow2(HashBits)

hash_t == 0 .. (HashSpace - 1)

\* The strings callers append (the tests' "data1", "data2", "data3").
Data == {"data1", "data2", "data3"}

\* The strings a verifier may present: the appended ones and "fake data".
Candidates == Data \cup {"fake data"}

\* Leaf indexes a caller may pass to generateProof (std::size_t, so >= 0),
\* up to treeCapacity, the index the tests use as out of range.
Indexes == 0 .. treeCapacity

\* The builds of std::hash<hash_t>: libstdc++ and libc++ return the value
\* itself; a mixing build permutes the values.
HashImpls == {"identity", "mixing"}

VARIABLES
    treeLeafNodes,    \* merkle_tree.hpp:133, std::array<hash_t, treeCapacity>, 0-indexed
    currentTreeSize,  \* merkle_tree.hpp:116, number of filled leaves
    currentRootHash,  \* merkle_tree.hpp:114, cached root hash
    hashImpl,         \* which std::hash<hash_t> the build has
    dataValues,       \* history: the strings appended so far, in order
                      \* (merkle_tree_tests.cpp:90-95)
    rootHashes,       \* history: the root hash after each successful append
                      \* (merkle_tree_tests.cpp:24-28)
    ret               \* outcome of the last call: value returned or exception

vars == <<treeLeafNodes, currentTreeSize, currentRootHash, hashImpl,
          dataValues, rootHashes, ret>>

treeVars == <<treeLeafNodes, currentTreeSize, currentRootHash>>

----------------------------------------------------------------------------
(* The hash functions *)

\* std::hash<hash_t>()(x)
IntHash(x) ==
    CASE hashImpl = "identity" -> x
      [] hashImpl = "mixing"   -> (x * (2 * x + 1) + 5) % HashSpace

\* The strings as numbers, for the arithmetic of the string hash.
Ord(data) ==
    CASE data = "data1" -> 1
      [] data = "data2" -> 2
      [] data = "data3" -> 3
      [] data = "fake data" -> 4

\* Variant: a string hash that reads only the parity of the string, so that
\* different strings share a hash.
StrHashColliding(data) == (3 * (Ord(data) % 2)) % HashSpace

\* std::hash<std::string>()(data): a hash of the string's bytes.
StrHash(data) == (3 * Ord(data)) % HashSpace

\* Variant: an ordered pairing of the children, the left one weighted.
SumHashOrdered(a, b) == IntHash((2 * a + b) % HashSpace)

\* The hash of the sum of two child hashes, as getNodeHash and verifyProof
\* compute it: unsigned addition wraps.
SumHash(a, b) == IntHash((a + b) % HashSpace)

----------------------------------------------------------------------------
(* MerkleNode: the address of a node *)

MerkleNode(level, index) == [level |-> level, index |-> index]

isLeaf(node) == node.level = treeHeight

getLeftChild(node) == MerkleNode(node.level + 1, 2 * node.index)

getRightChild(node) == MerkleNode(node.level + 1, 2 * node.index + 1)

\* Variant: the odd branch returns the node's own index.
getSiblingNodeOddKept(node) ==
    IF node.index % 2 = 0
    THEN MerkleNode(node.level, node.index + 1)
    ELSE MerkleNode(node.level, node.index)

getSiblingNode(node) ==
    IF node.index % 2 = 0
    THEN MerkleNode(node.level, node.index + 1)
    ELSE MerkleNode(node.level, node.index - 1)

\* The loop of getPathFromLeafToRoot: one node per level, from pathNodeLevel
\* down to level 1, halving the index at each step.
RECURSIVE PathLoop(_, _)
PathLoop(pathNodeLevel, pathNodeIndex) ==
    IF pathNodeLevel > 0
    THEN <<MerkleNode(pathNodeLevel, pathNodeIndex)>>
         \o PathLoop(pathNodeLevel - 1, pathNodeIndex \div 2)
    ELSE <<>>

\* Variant: the same nodes listed from the child of the root down to the leaf.
getPathFromRootToLeaf(node) ==
    [k \in 1 .. treeHeight |->
        MerkleNode(k, node.index \div Pow2(treeHeight - k))]

getPathFromLeafToRoot(node) == PathLoop(treeHeight, node.index)

----------------------------------------------------------------------------
(* MerkleTree *)

\* getNodeHash over a given leaf array.
RECURSIVE getNodeHash(_, _)
getNodeHash(leaves, node) ==
    IF isLeaf(node)
    THEN leaves[node.index]
    ELSE SumHash(getNodeHash(leaves, getLeftChild(node)),
                 getNodeHash(leaves, getRightChild(node)))

\* The addresses getNodeHash evaluates when called on node: the node itself
\* and, unless it is a leaf, everything evaluated for its two children.  An
\* address below the leaf level is recorded and not followed further.
RECURSIVE NodesVisited(_)
NodesVisited(node) ==
    {node} \cup
        IF isLeaf(node) \/ node.level > treeHeight
        THEN {}
        ELSE NodesVisited(getLeftChild(node)) \cup NodesVisited(getRightChild(node))

\* Variant: full only once the size has passed the capacity.
isFullOnePast == currentTreeSize > treeCapacity

\* Variant: full one leaf early.
isFullOneEarly == currentTreeSize >= treeCapacity - 1

isFull == currentTreeSize = treeCapacity

\* Variant: a tree with one leaf still counts as empty.
isEmptyOrSingle == currentTreeSize <= 1

isEmpty == currentTreeSize = 0

\* Variant: the hashes of the path's own nodes, not of their siblings.
pathHashes(leaves, leafNodeIndex) ==
    LET pathFromLeafToRoot ==
            getPathFromLeafToRoot(MerkleNode(treeHeight, leafNodeIndex))
    IN  [i \in 1 .. Len(pathFromLeafToRoot) |->
            getNodeHash(leaves, pathFromLeafToRoot[i])]

\* The array generateProof returns for an accepted index.
siblingHashes(leaves, leafNodeIndex) ==
    LET pathFromLeafToRoot ==
            getPathFromLeafToRoot(MerkleNode(treeHeight, leafNodeIndex))
    IN  [i \in 1 .. Len(pathFromLeafToRoot) |->
            getNodeHash(leaves, getSiblingNode(pathFromLeafToRoot[i]))]

\* The loop of verifyProof: fold the proof hashes into computedHash.
RECURSIVE FoldProof(_, _)
FoldProof(computedHash, proof) ==
    IF proof = <<>>
    THEN computedHash
    ELSE FoldProof(SumHash(computedHash, Head(proof)), Tail(proof))

\* Variant: the computed hash is compared with the tree's cached root, not
\* with the root hash passed in.
verifyProofAgainstTree(rootHash, proof, data) ==
    FoldProof(StrHash(data), proof) = currentRootHash

verifyProof(rootHash, proof, data) ==
    FoldProof(StrHash(data), proof) = rootHash

----------------------------------------------------------------------------
(* Outcomes of calls *)

NoThrow == "none"

Outcome(op, thrown, index, data, hash, proof, ok) ==
    [op |-> op, thrown |-> thrown, index |-> index, data |-> data,
     hash |-> hash, proof |-> proof, ok |-> ok]

Init ==
    /\ treeLeafNodes = [k \in 0 .. (treeCapacity - 1) |-> 0]
    /\ currentTreeSize = 0
    /\ currentRootHash = 0
    /\ hashImpl \in HashImpls
    /\ dataValues = <<>>
    /\ rootHashes = <<>>
    /\ ret = Outcome("construct", NoThrow, 0, "", 0, <<>>, FALSE)

\* Variant: the hash is written over the last leaf before the full tree
\* is noticed.
AddHashOfFullAfterWrite(data) ==
    /\ isFull
    /\ treeLeafNodes' = [treeLeafNodes EXCEPT ![treeCapacity - 1] = StrHash(data)]
    /\ ret' = Outcome("addHashOf", "MerkleTreeFullException", 0, data, 0, <<>>, FALSE)
    /\ UNCHANGED <<currentTreeSize, currentRootHash, hashImpl, dataValues, rootHashes>>

\* addHashOf on a full tree: throws, nothing is written.
AddHashOfFull(data) ==
    /\ isFull
    /\ ret' = Outcome("addHashOf", "MerkleTreeFullException", 0, data, 0, <<>>, FALSE)
    /\ UNCHANGED <<treeVars, hashImpl, dataValues, rootHashes>>

\* Variant: the leaf is stored and counted but the root is not recomputed.
AddHashOfStoreKeepRoot(data) ==
    /\ ~isFull
    /\ treeLeafNodes' = [treeLeafNodes EXCEPT ![currentTreeSize] = StrHash(data)]
    /\ currentTreeSize' = currentTreeSize + 1
    /\ currentRootHash' = currentRootHash
    /\ rootHashes' = Append(rootHashes, currentRootHash)
    /\ dataValues' = Append(dataValues, data)
    /\ ret' = Outcome("addHashOf", NoThrow, 0, data, 0, <<>>, FALSE)
    /\ UNCHANGED hashImpl

\* Variant: the root is recomputed before the leaf is stored.
AddHashOfStoreRootFirst(data) ==
    /\ ~isFull
    /\ LET root == getNodeHash(treeLeafNodes, MerkleNode(0, 0))
       IN  /\ treeLeafNodes' = [treeLeafNodes EXCEPT ![currentTreeSize] = StrHash(data)]
           /\ currentTreeSize' = currentTreeSize + 1
           /\ currentRootHash' = root
           /\ rootHashes' = Append(rootHashes, root)
    /\ dataValues' = Append(dataValues, data)
    /\ ret' = Outcome("addHashOf", NoThrow, 0, data, 0, <<>>, FALSE)
    /\ UNCHANGED hashImpl

\* Variant: the size is incremented before the leaf is stored, so the leaf
\* lands one slot too far.
AddHashOfStoreCountFirst(data) ==
    /\ ~isFull
    /\ LET leaves == [k \in DOMAIN treeLeafNodes |->
                         IF k = currentTreeSize + 1 THEN StrHash(data)
                         ELSE treeLeafNodes[k]]
           root == getNodeHash(leaves, MerkleNode(0, 0))
       IN  /\ treeLeafNodes' = leaves
           /\ currentTreeSize' = currentTreeSize + 1
           /\ currentRootHash' = root
           /\ rootHashes' = Append(rootHashes, root)
    /\ dataValues' = Append(dataValues, data)
    /\ ret' = Outcome("addHashOf", NoThrow, 0, data, 0, <<>>, FALSE)
    /\ UNCHANGED hashImpl

\* addHashOf on a tree with room: store, count, recompute the root.
AddHashOfStore(data) ==
    /\ ~isFull
    /\ LET dataHash == StrHash(data)
           leaves == [treeLeafNodes EXCEPT ![currentTreeSize] = dataHash]
           root == getNodeHash(leaves, MerkleNode(0, 0))
       IN  /\ treeLeafNodes' = leaves
           /\ currentTreeSize' = currentTreeSize + 1
           /\ currentRootHash' = root
           /\ rootHashes' = Append(rootHashes, root)
    /\ dataValues' = Append(dataValues, data)
    /\ ret' = Outcome("addHashOf", NoThrow, 0, data, 0, <<>>, FALSE)
    /\ UNCHANGED hashImpl

AddHashOf == \E data \in Data : AddHashOfFull(data) \/ AddHashOfStore(data)

\* Variant: the cached root is handed out and the cache is cleared.
GetRootHashClearing ==
    /\ ret' = IF isEmpty
              THEN Outcome("getRootHash", "MerkleTreeEmptyException", 0, "", 0, <<>>, FALSE)
              ELSE Outcome("getRootHash", NoThrow, 0, "", currentRootHash, <<>>, FALSE)
    /\ currentRootHash' = 0
    /\ UNCHANGED <<treeLeafNodes, currentTreeSize, hashImpl, dataValues, rootHashes>>

GetRootHash ==
    /\ ret' = IF isEmpty
              THEN Outcome("getRootHash", "MerkleTreeEmptyException", 0, "", 0, <<>>, FALSE)
              ELSE Outcome("getRootHash", NoThrow, 0, "", currentRootHash, <<>>, FALSE)
    /\ UNCHANGED <<treeVars, hashImpl, dataValues, rootHashes>>

\* Variant: the index is checked against the capacity, not the size.
GenerateProofWithinCapacity ==
    \E leafNodeIndex \in Indexes :
        /\ ret' = IF isEmpty
                  THEN Outcome("generateProof", "MerkleTreeEmptyException",
                               leafNodeIndex, "", 0, <<>>, FALSE)
                  ELSE IF leafNodeIndex >= treeCapacity
                  THEN Outcome("generateProof", "MerkleNodeIndexOutOfRangeException",
                               leafNodeIndex, "", 0, <<>>, FALSE)
                  ELSE Outcome("generateProof", NoThrow, leafNodeIndex, "", 0,
                               siblingHashes(treeLeafNodes, leafNodeIndex), FALSE)
        /\ UNCHANGED <<treeVars, hashImpl, dataValues, rootHashes>>

\* Variant: the index is checked before the tree is checked for emptiness.
GenerateProofIndexFirst ==
    \E leafNodeIndex \in Indexes :
        /\ ret' = IF leafNodeIndex >= currentTreeSize
                  THEN Outcome("generateProof", "MerkleNodeIndexOutOfRangeException",
                               leafNodeIndex, "", 0, <<>>, FALSE)
                  ELSE IF isEmpty
                  THEN Outcome("generateProof", "MerkleTreeEmptyException",
                               leafNodeIndex, "", 0, <<>>, FALSE)
                  ELSE Outcome("generateProof", NoThrow, leafNodeIndex, "", 0,
                               siblingHashes(treeLeafNodes, leafNodeIndex), FALSE)
        /\ UNCHANGED <<treeVars, hashImpl, dataValues, rootHashes>>

GenerateProof ==
    \E leafNodeIndex \in Indexes :
        /\ ret' = IF isEmpty
                  THEN Outcome("generateProof", "MerkleTreeEmptyException",
                               leafNodeIndex, "", 0, <<>>, FALSE)
                  ELSE IF leafNodeIndex >= currentTreeSize
                  THEN Outcome("generateProof", "MerkleNodeIndexOutOfRangeException",
                               leafNodeIndex, "", 0, <<>>, FALSE)
                  ELSE Outcome("generateProof", NoThrow, leafNodeIndex, "", 0,
                               siblingHashes(treeLeafNodes, leafNodeIndex), FALSE)
        /\ UNCHANGED <<treeVars, hashImpl, dataValues, rootHashes>>

\* A caller checks the proof it holds against the root of the tree, for any
\* candidate data (the tests' verifyProof(rootHash, proof, "...")).
VerifyProof ==
    \E data \in Candidates :
        /\ ret.op = "generateProof"
        /\ ret.thrown = NoThrow
        /\ ret' = Outcome("verifyProof", NoThrow, 0, data, 0, <<>>,
                          verifyProof(currentRootHash, ret.proof, data))
        /\ UNCHANGED <<treeVars, hashImpl, dataValues, rootHashes>>

Next == AddHashOf \/ GetRootHash \/ GenerateProof \/ VerifyProof

Spec == Init /\ [][Next]_vars

----------------------------------------------------------------------------
(* Helpers of the properties *)

Root == MerkleNode(0, 0)

\* The outcome of an accepted generateProof call is on hand.
ProofReturned == ret.op = "generateProof" /\ ret.thrown = NoThrow

\* The string appended as leaf i (0-indexed).
dataAt(i) == dataValues[i + 1]

\* The index of the other child of the same parent.
FlipParity(index) == index + 1 - 2 * (index % 2)

\* The leaf array with the two children of leaf-level parent j exchanged:
\* the leaves of the tree built from the same appends with those two swapped.
SwapSiblings(leaves, j) ==
    [k \in DOMAIN leaves |->
        IF k = 2 * j THEN leaves[2 * j + 1]
        ELSE IF k = 2 * j + 1 THEN leaves[2 * j]
        ELSE leaves[k]]

\* The leaf array as it was when the tree held n leaves (entries are written
\* once, in index order, so the later entries were still the placeholder).
LeavesAt(n) ==
    [k \in DOMAIN treeLeafNodes |-> IF k < n THEN treeLeafNodes[k] ELSE 0]

Distinct(seq) == \A a, b \in 1 .. Len(seq) : a # b => seq[a] # seq[b]

----------------------------------------------------------------------------
\* C1: round trip. Whenever generateProof(i) has returned a proof, checking
\* that proof with the string appended as leaf i against the tree's root
\* hash succeeds, for left (even) and right (odd) positions alike.
C1_RoundTrip ==
    ProofReturned =>
        verifyProof(currentRootHash, ret.proof, dataAt(ret.index))

\* A proof for a leaf that is a right child at every level of a full tree.
C1_Witness ==
    /\ ProofReturned
    /\ currentTreeSize = treeCapacity
    /\ ret.index = treeCapacity - 1
    /\ verifyProof(currentRootHash, ret.proof, dataAt(ret.index))

\* C2: tamper sensitivity. Whenever generateProof(i) has returned a proof,
\* checking it against the tree's root hash with any string other than the
\* one appended as leaf i fails (the hashes of the model do not collide).
C2_TamperSensitive ==
    ProofReturned =>
        \A data \in Candidates :
            data # dataAt(ret.index) =>
                ~verifyProof(currentRootHash, ret.proof, data)

\* The tests' scenario: three leaves, the proof of leaf 1, "fake data".
C2_Witness ==
    /\ ProofReturned
    /\ currentTreeSize = 3
    /\ ret.index = 1
    /\ ~verifyProof(currentRootHash, ret.proof, "fake data")

C4_RootNeverStale ==
    currentRootHash = getNodeHash(treeLeafNodes, Root)

\* C4, amended: whenever the tree is not empty, the cached root hash is the
\* node hash of (0, 0) over the current leaves.
C4_RootFreshWhenNonEmpty ==
    currentTreeSize > 0 =>
        currentRootHash = getNodeHash(treeLeafNodes, Root)

C4_Witness ==
    /\ currentTreeSize = 2
    /\ ret.op = "getRootHash"
    /\ ret.hash = getNodeHash(treeLeafNodes, Root)

\* C5: addHashOf throws MerkleTreeFullException exactly when the tree is
\* full, and then leaves, size and root hash are unchanged; otherwise it
\* stores the string's hash at the old size, adds one to the size and sets
\* the root hash to the node hash of (0, 0) over the new leaves.
C5_AppendAllOrNothing ==
    [][ret'.op = "addHashOf" =>
          /\ ret'.thrown \in {NoThrow, "MerkleTreeFullException"}
          /\ ret'.thrown = "MerkleTreeFullException"
                <=> currentTreeSize = treeCapacity
          /\ ret'.thrown = "MerkleTreeFullException" => UNCHANGED treeVars
          /\ ret'.thrown = NoThrow =>
                /\ treeLeafNodes' =
                       [treeLeafNodes EXCEPT ![currentTreeSize] = StrHash(ret'.data)]
                /\ currentTreeSize' = currentTreeSize + 1
                /\ currentRootHash' = getNodeHash(treeLeafNodes', Root)]_vars

\* An append to a full tree has thrown.
C5_Witness ==
    /\ ret.op = "addHashOf"
    /\ ret.thrown = "MerkleTreeFullException"
    /\ currentTreeSize = treeCapacity

\* C6: getRootHash and generateProof throw MerkleTreeEmptyException exactly
\* when the tree is empty, and on a non-empty tree getRootHash returns the
\* cached root hash without throwing.
C6_EmptyErrorIffEmpty ==
    /\ ret.op \in {"getRootHash", "generateProof"} =>
           (ret.thrown = "MerkleTreeEmptyException" <=> currentTreeSize = 0)
    /\ (ret.op = "getRootHash" /\ currentTreeSize > 0) =>
           (ret.thrown = NoThrow /\ ret.hash = currentRootHash)

\* getRootHash on the empty tree has thrown.
C6_Witness ==
    /\ ret.op = "getRootHash"
    /\ ret.thrown = "MerkleTreeEmptyException"
    /\ currentTreeSize = 0

C8_LeafInv ==
    /\ currentTreeSize \in 0 .. treeCapacity
    /\ Len(dataValues) = currentTreeSize
    /\ \A k \in 0 .. (treeCapacity - 1) :
           treeLeafNodes[k] = IF k < currentTreeSize THEN StrHash(dataAt(k)) ELSE 0

C8_GrowOnly ==
    /\ currentTreeSize' >= currentTreeSize
    /\ \A k \in 0 .. (currentTreeSize - 1) : treeLeafNodes'[k] = treeLeafNodes[k]

C8_AppendOnly == []C8_LeafInv /\ [][C8_GrowOnly]_vars

\* A partly filled tree: filled entries below the size, placeholders above.
C8_Witness ==
    /\ currentTreeSize = treeCapacity - 1
    /\ treeLeafNodes[currentTreeSize - 1] = StrHash(dataAt(currentTreeSize - 1))
    /\ treeLeafNodes[currentTreeSize] = 0

C10_ProofShape ==
    ProofReturned =>
        /\ Len(ret.proof) = treeHeight
        /\ \A k \in 0 .. (treeHeight - 1) :
               ret.proof[k + 1] =
                   getNodeHash(treeLeafNodes,
                               MerkleNode(treeHeight - k,
                                          FlipParity(ret.index \div Pow2(k))))

\* A proof for a leaf in the middle of a partly filled tree.
C10_Witness ==
    /\ ProofReturned
    /\ currentTreeSize = 3
    /\ ret.index = 2
    /\ Len(ret.proof) = treeHeight
    /\ ret.proof[1] = treeLeafNodes[3]

\* The tree that a fresh MerkleTree holds after appending the strings of seq
\* in order and nothing else: each append stores one hash at the next index
\* and recomputes the root over the whole array.
ReplayLeaves(seq) ==
    [k \in 0 .. (treeCapacity - 1) |->
        IF k < Len(seq) THEN StrHash(seq[k + 1]) ELSE 0]

ReplayRoot(seq) ==
    IF seq = <<>> THEN 0 ELSE getNodeHash(ReplayLeaves(seq), Root)

\* C11: determinism. Whatever calls were interleaved (getRootHash,
\* generateProof, verifyProof, appends refused on a full tree), the size,
\* the leaves and the root hash are those of a fresh tree given the same
\* appends in the same order; so two trees given the same appends agree.
C11_Deterministic ==
    /\ currentTreeSize = Len(dataValues)
    /\ treeLeafNodes = ReplayLeaves(dataValues)
    /\ currentRootHash = ReplayRoot(dataValues)
    /\ currentTreeSize > 0 => rootHashes[currentTreeSize] = ReplayRoot(dataValues)

\* A full tree on which a further append has been refused.
C11_Witness ==
    /\ currentTreeSize = treeCapacity
    /\ ret.op = "addHashOf"
    /\ ret.thrown = "MerkleTreeFullException"
    /\ ret.data # dataValues[treeCapacity]
    /\ currentRootHash = ReplayRoot(dataValues)

----------------------------------------------------------------------------
(* verifyProof on arbitrary arguments *)

\* The hashes a caller puts into a hand-made proof.
ProofHashes == 0 .. MaxProofHash

\* n copies of the tests' "data" string.
Fill(n) == [k \in 1 .. n |-> "data1"]

\* Some tree exists, filled by n appends, and a caller is about to call
\* verifyProof with arguments of its own choosing.
InitVerify ==
    /\ hashImpl \in HashImpls
    /\ \E n \in 0 .. treeCapacity :
           /\ dataValues = Fill(n)
           /\ treeLeafNodes = ReplayLeaves(Fill(n))
           /\ currentTreeSize = n
           /\ currentRootHash = ReplayRoot(Fill(n))
           /\ rootHashes = [m \in 1 .. n |-> ReplayRoot(Fill(m))]
    /\ \E rootHash \in hash_t, proof \in [1 .. treeHeight -> ProofHashes],
          data \in Candidates :
           ret = Outcome("verifyProof:call", NoThrow, 0, data, rootHash, proof, FALSE)

\* The call itself: verifyProof(rootHash, proof, data) returns.
VerifyProofCall ==
    /\ ret.op = "verifyProof:call"
    /\ ret' = Outcome("verifyProof", NoThrow, 0, ret.data, ret.hash, ret.proof,
                      verifyProof(ret.hash, ret.proof, ret.data))
    /\ UNCHANGED <<treeVars, hashImpl, dataValues, rootHashes>>

NextVerify == VerifyProofCall

SpecVerify == InitVerify /\ [][NextVerify]_vars

\* The hash after the first k entries of the proof have been combined into h.
RECURSIVE Folded(_, _, _)
Folded(h, proof, k) ==
    IF k = 0 THEN h ELSE SumHash(Folded(h, proof, k - 1), proof[k])

\* C12: verifyProof is total and stateless. For every root hash, proof and
\* string it returns a boolean without throwing, and the boolean is TRUE
\* exactly when combining the treeHeight proof entries, leaf to root, into
\* the hash of the string gives the root hash passed in, whatever tree exists.
C12_VerifyTotalStateless ==
    ret.op = "verifyProof" =>
        /\ ret.thrown = NoThrow
        /\ ret.ok \in BOOLEAN
        /\ ret.ok <=> (Folded(StrHash(ret.data), ret.proof, treeHeight) = ret.hash)

\* verifyProof answered TRUE for a root hash that is not the root of the
\* tree that exists, and FALSE is what that tree's root would have given.
C12_Witness ==
    /\ ret.op = "verifyProof"
    /\ ret.ok
    /\ currentTreeSize > 0
    /\ ret.hash # currentRootHash
    /\ ~verifyProof(currentRootHash, ret.proof, ret.data)

\* C13: getRootHash and generateProof never modify the tree. Whether they
\* return or throw MerkleTreeEmptyException or
\* MerkleNodeIndexOutOfRangeException, leaves, size and cached root hash are
\* the same after the call as before it, and a root hash that getRootHash
\* returned is the one still cached.
C13_ReadsLeaveTreeAlone ==
    [][ret'.op \in {"getRootHash", "generateProof"} =>
          /\ UNCHANGED treeVars
          /\ (ret'.op = "getRootHash" /\ ret'.thrown = NoThrow) =>
                 ret'.hash = currentRootHash']_vars

\* generateProof has refused an index on a full tree, whose leaves and root
\* are still those its appends gave it.
C13_Witness ==
    /\ ret.op = "generateProof"
    /\ ret.thrown = "MerkleNodeIndexOutOfRangeException"
    /\ currentTreeSize = treeCapacity
    /\ treeLeafNodes = ReplayLeaves(dataValues)
    /\ currentRootHash = rootHashes[treeCapacity]

\* C14: during an accepted generateProof(i), getSiblingNode is applied only
\* to nodes of levels 1..treeHeight (never to the root), each sibling is on
\* the node's level with an index that differs from the node's in the lowest
\* bit only, and the odd branch's index - 1 does not go below 0.
C14_SiblingsWellFormed ==
    ProofReturned =>
        LET path == getPathFromLeafToRoot(MerkleNode(treeHeight, ret.index))
        IN  \A k \in 1 .. Len(path) :
                LET node == path[k]
                    sibling == getSiblingNode(node)
                IN  /\ node.level \in 1 .. treeHeight
                    /\ sibling.level = node.level
                    /\ sibling.index >= 0
                    /\ sibling.index # node.index
                    /\ sibling.index \div 2 = node.index \div 2
                    /\ node.index % 2 = 1 =>
                           (node.index >= 1 /\ sibling.index = node.index - 1)

\* A proof for leaf 1: odd at the leaf level, even (index 0) one level up.
C14_Witness ==
    /\ ProofReturned
    /\ ret.index = 1
    /\ getSiblingNode(MerkleNode(treeHeight, 1)) = MerkleNode(treeHeight, 0)
    /\ getSiblingNode(MerkleNode(treeHeight - 1, 0)) = MerkleNode(treeHeight - 1, 1)

\* An address of the tree: a level 0..treeHeight and an index on that level.
InTree(node) ==
    /\ node.level \in 0 .. treeHeight
    /\ node.index \in 0 .. (Pow2(node.level) - 1)

\* Every address evaluated from start is in the tree, every leaf read is a
\* slot of the leaf array, and no address lies more than treeHeight
\* descents below start.
SafeFrom(start) ==
    \A node \in NodesVisited(start) :
        /\ InTree(node)
        /\ isLeaf(node) => node.index \in DOMAIN treeLeafNodes
        /\ node.level - start.level \in 0 .. treeHeight

\* C15: after every successful append the slot written is a slot of the
\* leaf array and the root recomputation evaluated only addresses of the
\* tree (level <= treeHeight, index < 2^level), reading leaf slots in
\* [0, treeCapacity) and reaching each leaf within treeHeight descents; the
\* same holds of every sibling hash computed for an accepted generateProof(i).
C15_BoundsSafe ==
    /\ (ret.op = "addHashOf" /\ ret.thrown = NoThrow) =>
           /\ (currentTreeSize - 1) \in DOMAIN treeLeafNodes
           /\ DOMAIN treeLeafNodes = 0 .. (treeCapacity - 1)
           /\ SafeFrom(Root)
    /\ ProofReturned =>
           LET leaf == MerkleNode(treeHeight, ret.index)
               path == getPathFromLeafToRoot(leaf)
           IN  /\ InTree(leaf)
               /\ \A k \in 1 .. Len(path) :
                      /\ InTree(path[k])
                      /\ SafeFrom(getSiblingNode(path[k]))

\* A proof for the last leaf of a tree filled by treeCapacity successful
\* appends: the largest addresses either operation can touch.
C15_Witness ==
    /\ ProofReturned
    /\ ret.index = treeCapacity - 1
    /\ currentTreeSize = treeCapacity
    /\ Len(dataValues) = treeCapacity
    /\ treeLeafNodes[treeCapacity - 1] # 0
    /\ MerkleNode(treeHeight, treeCapacity - 1) \in NodesVisited(Root)
    /\ MerkleNode(treeHeight, treeCapacity - 2)
           \in NodesVisited(getSiblingNode(MerkleNode(treeHeight, ret.index)))

====
